---- MODULE Spec2Model ----
(***************************************************************************)
(* Model of dashboard.py, a Streamlit script over the bike-share table     *)
(* train.csv.  The script runs top to bottom once at start and again on    *)
(* every change of a sidebar widget: load_and_prep_data() (cached) gives   *)
(* the enriched table df, the two multiselects give the selection, and the *)
(* filtered subset, the KPIs and the chart tables are recomputed.          *)
(*                                                                         *)
(* A table is a sequence of records (rows in file order).  A timestamp is  *)
(* the number of hours since 2011-01-01 00:00, a Saturday.  A float mean   *)
(* is an exact fraction [num, den] in lowest terms; NaN is 0/0.  A value   *)
(* the run did not get to compute is None (the empty tuple), a computed    *)
(* value x is Some(x).  The period labels are written without the emoji    *)
(* that prefixes each of them in the source.                               *)
(***************************************************************************)
EXTENDS Integers, Sequences, FiniteSets, TLC

VARIABLES
    df,               \* the cached enriched table (line 71)
    selected_year,    \* sidebar multiselect "Select Year" (line 77)
    selected_season,  \* sidebar multiselect "Select Season" (line 79)
    filtered_df,      \* line 83
    total_rides,      \* line 93
    avg_rides,        \* line 94
    peak_hour,        \* line 95
    core_user,        \* line 96
    user_sums,        \* line 140
    heatmap_pivot,    \* line 198
    period_counts,    \* line 214
    status            \* "ok", or the exception that ended the last run

vars == <<df, selected_year, selected_season, filtered_df, total_rides,
          avg_rides, peak_hour, core_user, user_sums, heatmap_pivot,
          period_counts, status>>

\* ------------------------------------------------------------------ bounds

MaxRows == 2

\* ----------------------------------------------------------------- helpers

None == << >>
Some(x) == <<x>>

NaN == [num |-> 0, den |-> 0]

RECURSIVE GCD(_, _)
GCD(a, b) == IF b = 0 THEN a ELSE GCD(b, a % b)

\* a / b as a float, b > 0
Frac(a, b) == [num |-> a \div GCD(a, b), den |-> b \div GCD(a, b)]

\* the elements of a finite set of integers in ascending order
RECURSIVE SortedSeq(_)
SortedSeq(S) ==
    IF S = {} THEN << >>
    ELSE LET m == CHOOSE x \in S : \A y \in S : x <= y
         IN  <<m>> \o SortedSeq(S \ {m})

\* Series.sum() of column col of table t: 0 for no rows
RECURSIVE ColSum(_, _)
ColSum(t, col) ==
    IF t = << >> THEN 0 ELSE t[1][col] + ColSum(Tail(t), col)

\* Series.mean() of column col of table t: NaN for no rows
ColMean(t, col) ==
    IF t = << >> THEN NaN ELSE Frac(ColSum(t, col), Len(t))

\* the rows of t whose column col is v, in order (one group of a groupby)
RECURSIVE Group(_, _, _)
Group(t, col, v) ==
    IF t = << >> THEN << >>
    ELSE (IF t[1][col] = v THEN <<t[1]>> ELSE << >>) \o Group(Tail(t), col, v)

\* Series.unique() as a set
Unique(t, col) == {t[i][col] : i \in DOMAIN t}

\* --------------------------------------------------------- feature deriver

year_of(ts) == IF ts < 8760 THEN 2011 ELSE 2012

hour_of(ts) == ts % 24

day_order == <<"Monday", "Tuesday", "Wednesday", "Thursday", "Friday",
               "Saturday", "Sunday">>

day_name(ts) == day_order[(((ts \div 24) + 5) % 7) + 1]

get_period_late(h) ==
    IF 5 <= h /\ h <= 10 THEN "Morning Rush"
    ELSE IF 10 <= h /\ h <= 15 THEN "Mid-Day"
    ELSE IF 15 <= h /\ h <= 20 THEN "Evening Rush"
    ELSE "Night"

get_period(h) ==
    IF 5 <= h /\ h < 10 THEN "Morning Rush"
    ELSE IF 10 <= h /\ h < 15 THEN "Mid-Day"
    ELSE IF 15 <= h /\ h < 20 THEN "Evening Rush"
    ELSE "Night"

\* Series.map(dict): a key the dict lacks maps to NaN
season_map_shifted(s) ==
    CASE s = 1 -> "Winter" [] s = 2 -> "Spring" [] s = 3 -> "Summer"
      [] s = 4 -> "Fall" [] OTHER -> "NaN"

season_map(s) ==
    CASE s = 1 -> "Spring" [] s = 2 -> "Summer" [] s = 3 -> "Fall"
      [] s = 4 -> "Winter" [] OTHER -> "NaN"

weather_map(w) ==
    CASE w = 1 -> "Clear/Nice" [] w = 2 -> "Cloudy/Mist" [] w = 3 -> "Rain/Snow"
      [] w = 4 -> "Extreme Weather" [] OTHER -> "NaN"

\* one row of train.csv with the derived columns added
Enrich(r) ==
    [datetime |-> r.datetime, season |-> r.season, weather |-> r.weather,
     casual |-> r.casual, registered |-> r.registered, count |-> r.count,
     year |-> year_of(r.datetime), day |-> day_name(r.datetime),
     hour |-> hour_of(r.datetime), period |-> get_period(hour_of(r.datetime)),
     season_label |-> season_map(r.season),
     weather_label |-> weather_map(r.weather)]

load_and_prep_data(raw) == [i \in DOMAIN raw |-> Enrich(raw[i])]

\* ------------------------------------------------------ filter & aggregator

\* Series.isin(values): membership, so an empty selection accepts nothing
isin_empty_is_all(v, values) == values = {} \/ v \in values

isin(v, values) == v \in values

\* df[(year mask) & (season mask)]: the rows both masks accept, in order
RECURSIVE filter_rows_either(_, _, _)
filter_rows_either(t, years, seasons) ==
    IF t = << >> THEN << >>
    ELSE (IF isin(t[1].year, years) \/ isin(t[1].season_label, seasons)
          THEN <<t[1]>> ELSE << >>)
         \o filter_rows_either(Tail(t), years, seasons)

RECURSIVE filter_rows(_, _, _)
filter_rows(t, years, seasons) ==
    IF t = << >> THEN << >>
    ELSE (IF isin(t[1].year, years) /\ isin(t[1].season_label, seasons)
          THEN <<t[1]>> ELSE << >>)
         \o filter_rows(Tail(t), years, seasons)

\* groupby(keycol)[valcol].sum(): one <<key, sum>> per key present, keys ascending
groupby_sum(t, keycol, valcol) ==
    LET keys == SortedSeq(Unique(t, keycol))
    IN  [i \in DOMAIN keys |->
            <<keys[i], ColSum(Group(t, keycol, keys[i]), valcol)>>]

\* Series.idxmax() of a non-empty series: the key of the first largest value
RECURSIVE idxmax_scan_last(_, _, _)
idxmax_scan_last(s, i, best) ==
    IF i > Len(s) THEN s[best][1]
    ELSE idxmax_scan_last(s, i + 1, IF s[i][2] >= s[best][2] THEN i ELSE best)

idxmax_last(s) == idxmax_scan_last(s, 2, 1)

RECURSIVE idxmax_scan(_, _, _)
idxmax_scan(s, i, best) ==
    IF i > Len(s) THEN s[best][1]
    ELSE idxmax_scan(s, i + 1, IF s[i][2] > s[best][2] THEN i ELSE best)

idxmax(s) == idxmax_scan(s, 2, 1)

\* "Registered" if the registered sum is the larger, else "Casual"
core_user_of(t) ==
    IF ColSum(t, "registered") > ColSum(t, "casual")
    THEN "Registered" ELSE "Casual"

\* filtered_df[['casual', 'registered']].sum().reset_index()
user_sums_of(t) ==
    << [UserType |-> "casual", Count |-> ColSum(t, "casual")],
       [UserType |-> "registered", Count |-> ColSum(t, "registered")] >>

\* groupby(['day', 'hour']) with day a 7-category Categorical groups by every
\* category and every hour present; the mean of a group with no rows is NaN.
\* pivot() then has the days as index and the hours present as columns.
heatmap_pivot_of(t) ==
    LET hours == SortedSeq(Unique(t, "hour"))
    IN  [index |-> IF hours = << >> THEN << >> ELSE day_order,
         columns |-> hours,
         values |-> [d \in {day_order[i] : i \in DOMAIN day_order},
                     h \in Unique(t, "hour") |->
                        ColMean(Group(Group(t, "day", d), "hour", h), "count")]]

period_order == <<"Morning Rush", "Mid-Day", "Evening Rush", "Night">>

\* groupby('period')['count'].mean().reindex(period_order).reset_index()
period_counts_of(t) ==
    [i \in DOMAIN period_order |->
        [period |-> period_order[i],
         count |-> IF period_order[i] \in Unique(t, "period")
                   THEN ColMean(Group(t, "period", period_order[i]), "count")
                   ELSE NaN]]

\* One run of the script from line 83 on, on table t with the two selections:
\* what each variable holds when the run ends.  idxmax() of an empty series
\* raises ValueError at line 95; the run ends there and nothing below that
\* line is computed.
RunScript(t, years, seasons, f, total, avg, peak, core, sums, heat, periods, st) ==
    /\ f = filter_rows(t, years, seasons)
    /\ total = Some(ColSum(f, "count"))
    /\ avg = Some(ColMean(f, "count"))
    /\ LET by_hour == groupby_sum(f, "hour", "count")
       IN  IF by_hour = << >>
           THEN /\ peak = None
                /\ core = None
                /\ sums = None
                /\ heat = None
                /\ periods = None
                /\ st = "ValueError"
           ELSE /\ peak = Some(idxmax(by_hour))
                /\ core = Some(core_user_of(f))
                /\ sums = Some(user_sums_of(f))
                /\ heat = Some(heatmap_pivot_of(f))
                /\ periods = Some(period_counts_of(f))
                /\ st = "ok"

\* load_and_prep_data() on a rerun: st.cache_data returns the table of the
\* first call
load_cached_narrowed == filtered_df

load_cached == df

year_options == {2011, 2012}

season_options == Unique(load_cached, "season_label")

\* ------------------------------------------------------------------ inputs

DateTimes == {8, 65, 8768, 8807}
Seasons == {1, 3}
Weathers == {1}
Riders == {<<0, 1, 1>>, <<1, 1, 2>>, <<1, 0, 2>>}

RawRows(dts, ss, ws, rs) ==
    {[datetime |-> d, season |-> s, weather |-> w,
      casual |-> r[1], registered |-> r[2], count |-> r[3]] :
        d \in dts, s \in ss, w \in ws, r \in rs}

Tables(rows, lo, hi) == UNION {[1..n -> rows] : n \in lo..hi}

\* ------------------------------------------------------------ state machine

\* the first run: the table is loaded and both widgets hold their defaults
FirstRun(raw) ==
    /\ df = load_and_prep_data(raw)
    /\ selected_year = year_options
    /\ selected_season = Unique(df, "season_label")
    /\ RunScript(df, selected_year, selected_season, filtered_df, total_rides,
                 avg_rides, peak_hour, core_user, user_sums, heatmap_pivot,
                 period_counts, status)

Init == \E raw \in Tables(RawRows(DateTimes, Seasons, Weathers, Riders),
                          1, MaxRows) : FirstRun(raw)

\* a rerun of the whole script with the selections years and seasons
Rerun(years, seasons) ==
    /\ df' = df
    /\ selected_year' = years
    /\ selected_season' = seasons
    /\ RunScript(load_cached, years, seasons, filtered_df', total_rides',
                 avg_rides', peak_hour', core_user', user_sums', heatmap_pivot',
                 period_counts', status')

\* the user changes "Select Year"
ChangeYear ==
    \E years \in SUBSET year_options :
        /\ years # selected_year
        /\ Rerun(years, selected_season)

\* the user changes "Select Season"
ChangeSeason ==
    \E seasons \in SUBSET season_options :
        /\ seasons # selected_season
        /\ Rerun(selected_year, seasons)

Next == ChangeYear \/ ChangeSeason

Spec == Init /\ [][Next]_vars

\* The feature deriver on one-row tables over every hour of a day and every
\* season and weather code the file can hold, valid or not.
DayHours == 0..23
Ordinals == 0..5

InitDerive == \E raw \in Tables(RawRows(DayHours, Ordinals, Ordinals,
                                        {<<1, 1, 2>>}), 1, 1) : FirstRun(raw)

SpecDerive == InitDerive /\ [][Next]_vars
\* ------------------------------------------------------------------ claims

\* the rows of df that the year and the season selection both accept
Accepted ==
    {i \in DOMAIN df : df[i].year \in selected_year
                       /\ df[i].season_label \in selected_season}

\* filtered_df is df cut down to the rows of Accepted, in df's order
FilteredIsAccepted ==
    /\ Len(filtered_df) = Cardinality(Accepted)
    /\ \A i \in Accepted :
          filtered_df[Cardinality({j \in Accepted : j <= i})] = df[i]

\* the summed count of the rows of the filtered subset at hour h
HourTotal(h) == ColSum(Group(filtered_df, "hour", h), "count")

\* C1: for every hour h in 0..23 the period label of a row with hour h is
\* Morning Rush for 5 <= h < 10, Mid-Day for 10 <= h < 15, Evening Rush for
\* 15 <= h < 20 and Night otherwise; 10, 15 and 20 open Mid-Day, Evening Rush
\* and Night.
C1_PeriodBuckets ==
    \A i \in DOMAIN df :
        LET h == df[i].hour
            p == df[i].period
        IN  /\ h \in 0..23
            /\ h \in 5..9 => p = "Morning Rush"
            /\ h \in 10..14 => p = "Mid-Day"
            /\ h \in 15..19 => p = "Evening Rush"
            /\ h \in (0..4) \cup (20..23) => p = "Night"

C1_Witness ==
    \E i \in DOMAIN df : df[i].hour = 10 /\ df[i].period = "Mid-Day"

HourRanges == {r \in (0..23) \X (0..23) : r[1] <= r[2]}
WeatherSelections == SUBSET {weather_map(w) : w \in 1..4}

C3_EmptySelectionExcludesAll ==
    (selected_year = {} \/ selected_season = {}) => filtered_df = << >>

C3_Witness ==
    /\ selected_season = {}
    /\ selected_year = year_options
    /\ df # << >>
    /\ filtered_df = << >>

\* C4: when the filtered subset is empty the run completes without raising,
\* with total rides 0 and peak hour 0.
C4_EmptySubsetDefaults ==
    filtered_df = << >> =>
        /\ status = "ok"
        /\ total_rides = Some(0)
        /\ peak_hour = Some(0)

\* C5: for a non-empty filtered subset the peak hour is an hour in 0..23 that
\* occurs in the subset, whose summed count is at least that of every other
\* hour of the subset, and the smallest of the hours that tie for the largest.
C5_PeakHourIsFirstLargest ==
    filtered_df # << >> =>
        /\ Len(peak_hour) = 1
        /\ peak_hour[1] \in 0..23
        /\ peak_hour[1] \in Unique(filtered_df, "hour")
        /\ \A h \in Unique(filtered_df, "hour") :
              /\ HourTotal(peak_hour[1]) >= HourTotal(h)
              /\ HourTotal(h) = HourTotal(peak_hour[1]) => peak_hour[1] <= h

C5_Witness ==
    \E h1, h2 \in Unique(filtered_df, "hour") :
        /\ h1 < h2
        /\ HourTotal(h1) = HourTotal(h2)
        /\ \A h \in Unique(filtered_df, "hour") : HourTotal(h) <= HourTotal(h1)
        /\ peak_hour = Some(h1)

\* C6: for every filtered subset the day-by-hour matrix has the 7 rows Monday
\* to Sunday in that order and the 24 columns 0 to 23, a cell with no rows is
\* null and every other cell is the mean count of its day and hour.
C6_HeatmapIsSevenByTwentyFour ==
    /\ Len(heatmap_pivot) = 1
    /\ heatmap_pivot[1].index = <<"Monday", "Tuesday", "Wednesday", "Thursday",
                                  "Friday", "Saturday", "Sunday">>
    /\ heatmap_pivot[1].columns = [i \in 1..24 |-> i - 1]
    /\ \A i \in 1..7, h \in 0..23 :
          LET d == heatmap_pivot[1].index[i]
              cell == {k \in DOMAIN filtered_df :
                          filtered_df[k].day = d /\ filtered_df[k].hour = h}
          IN  heatmap_pivot[1].values[d, h] =
                  IF cell = {} THEN NaN
                  ELSE ColMean(Group(Group(filtered_df, "day", d), "hour", h),
                               "count")

\* C7: for every filtered subset the period view lists the four buckets in
\* the order Morning Rush, Mid-Day, Evening Rush, Night, each with the mean
\* count of the subset's rows in it, null for a bucket with no rows.
C7_PeriodViewListsFourBuckets ==
    /\ Len(period_counts) = 1
    /\ Len(period_counts[1]) = 4
    /\ \A i \in 1..4 :
          LET p == <<"Morning Rush", "Mid-Day", "Evening Rush", "Night">>[i]
              rows == Group(filtered_df, "period", p)
          IN  /\ period_counts[1][i].period = p
              /\ period_counts[1][i].count =
                    IF rows = << >> THEN NaN
                    ELSE Frac(ColSum(rows, "count"), Len(rows))

\* C7 on the runs that reach line 214: there the view is as the claim says.
C7_PeriodViewWhenRunCompletes ==
    status = "ok" => C7_PeriodViewListsFourBuckets

RawInvariant ==
    \A i \in DOMAIN df : df[i].count = df[i].casual + df[i].registered

\* C8: if every record has count = casual + registered, then for every
\* selection the two sums of the user split add up to the total-rides KPI.
C8_UserSplitAddsUpToTotal ==
    RawInvariant =>
        /\ Len(user_sums) = 1
        /\ Len(total_rides) = 1
        /\ user_sums[1][1].Count + user_sums[1][2].Count = total_rides[1]

\* C8 on the runs that reach line 140: there the sums add up.
C8_UserSplitWhenRunCompletes ==
    status = "ok" => C8_UserSplitAddsUpToTotal

\* C9: a filter change leaves the cached table as it was, and the filtered
\* subset after it is cut from the full table by the new selection alone:
\* with every year and season selected again it is the full table.
C9_RerunReadsFullTable ==
    [][/\ df' = df
       /\ Len(filtered_df') = Cardinality(Accepted')
       /\ (selected_year' = year_options
           /\ selected_season' = Unique(df', "season_label"))
              => filtered_df' = df']_vars

C9_Witness ==
    /\ selected_year # year_options
    /\ filtered_df # << >>
    /\ Len(filtered_df) < Len(df)
    /\ status = "ok"

\* C10: for a season code in 1..4 the season label is Spring, Summer, Fall,
\* Winter in that order, for a weather code in 1..4 the weather label is
\* defined, and each mapping takes the four codes to four distinct labels.
C10_OrdinalLabels ==
    /\ \A i \in DOMAIN df :
          /\ df[i].season \in 1..4 =>
                df[i].season_label =
                    <<"Spring", "Summer", "Fall", "Winter">>[df[i].season]
          /\ df[i].weather \in 1..4 => df[i].weather_label # "NaN"
    /\ Cardinality({season_map(s) : s \in 1..4} \ {"NaN"}) = 4
    /\ Cardinality({weather_map(w) : w \in 1..4} \ {"NaN"}) = 4

C10_Witness ==
    \E i \in DOMAIN df :
        /\ df[i].season = 4
        /\ df[i].season_label = "Winter"
        /\ df[i].weather = 4
        /\ df[i].weather_label = "Extreme Weather"
====
